---- MODULE Spec2Model ----
(***************************************************************************)
(* The access state machine of tinker_access_client/Client.py: the modes,  *)
(* the triggers and their guards, the entry actions, the queued dispatch   *)
(* of the transitions library (queued=True), the SessionTimer and the      *)
(* RelockTimer threads, and the input handlers that turn device events     *)
(* into triggers.                                                          *)
(*                                                                         *)
(* Threads.  The input thread runs the handlers (one at a time).  Every    *)
(* threading.Timer that fires runs its tick on a thread of its own.  A     *)
(* trigger called while the transition queue is empty is processed by the  *)
(* calling thread (proc); a trigger called while a transition is running   *)
(* is appended to the queue and processed by the thread that is draining   *)
(* it.  The code that runs under __logout_timer_lock is one atomic step.   *)
(***************************************************************************)
EXTENDS Integers, Sequences, FiniteSets, TLC

\* ---------------------------------------------------------------- bounds
MaxRemaining == 1      \* the server grants remaining_seconds in 0..MaxRemaining
MaxQueue == 2          \* triggers in the transition queue, the running one included
MaxPending == 1        \* timer threads that have fired and not finished
MaxOrphans == 1        \* live timers that no field names any more
MaxElapsed == 3        \* half seconds of __wait_for_power_down that are told apart

\* ------------------------------------------------------- program constants
logout_timer_interval_seconds == 1

\* --------------------------------------------------------------- State.py
INITIALIZED == "initialized"
IDLE == "idle"
IN_USE == "in_use"
UNLOCKED == "unlocked"
IN_TRAINING == "in_training"
ESTOP == "estop"
BYPASSED == "bypassed"
TERMINATED == "terminated"

States == {INITIALIZED, IDLE, IN_USE, UNLOCKED, IN_TRAINING, ESTOP, BYPASSED, TERMINATED}

\* class Trigger
T_IDLE == "idle"
T_ESTOP == "estop"
T_BYPASS == "bypass"
T_UNLOCK == "unlock"
T_LOGIN == "login"
T_LOGOUT == "logout"
T_TERMINATE == "terminate"

\* ------------------------------------------------------------ input domains
Badges == {"A1", "B2"}
\* the user_id the server holds for a badge
UserId(badge_code) == IF badge_code = "A1" THEN 11 ELSE 22
Inf == -1                                   \* float('inf')
ExtensionChoices == {1, Inf}                \* remaining_extensions the server grants
SessionSecondsChoices == {1}                \* session_seconds the server grants
\* datetime.now().time() as seconds of the day: 16:59:00, 17:00:00, 17:00:30
NowChoices == {17 * 3600 - 60, 17 * 3600, 17 * 3600 + 30}

\* positions of a Timer object: armed is started and not fired; the others are
\* where the thread of a fired timer is in its tick
TimerStatuses == {"armed", "fired", "expired", "rearm", "create"}

\* MAX_POWER_DOWN_TIMEOUT in half seconds (Inf when the option is not set) and
\* LOGOUT_COAST_TIME in seconds, in the runs of the power-down sequence
TimeoutChoices == {Inf, 0, 2}
CoastChoices == {0, 1}

VARIABLES
    opts,           \* the ClientOption values (immutable)
    state,          \* Machine.state
    user_info,      \* self.__user_info
    relay,          \* level of PIN_POWER_RELAY
    logout_timer,   \* self.__logout_timer: 1 for a Timer object, 0 for None
    relock_timer,   \* self.__relock_timer: 1 for a Timer object, 0 for None
    sessT,          \* the SessionTimer objects: how many in each status, named or not
    relT,           \* the RelockTimer objects: how many in each status, named or not
    queue,          \* Machine._transition_queue
    proc,           \* the thread draining the queue: none, input, timer
    pc,             \* where that thread is in the running transition
    ev,             \* EventData of the running transition
    local,          \* the locals of __extend_session
    estop_pin,      \* level of PIN_ESTOP
    bypass_pin,     \* level of PIN_BYPASS_DETECT
    now,            \* datetime.now() as the running __relock_timer_tick read it
    status_file,    \* content of STATUS_FILE
    sent,           \* api.logout threads started by the running transition
    training_scan,  \* the badge the last input event scanned in IN_TRAINING, its calls
    ran,            \* Client.run has fired its first trigger
    exited,         \* __exit__ has run: the main loop is over
    hist,           \* ticks of the current undisturbed session or unlocked period
    pd              \* __disable_power step by step: position, locals, current sense

vars == <<opts, state, user_info, relay, logout_timer, relock_timer, sessT, relT,
          queue, proc, pc, ev, local, estop_pin, bypass_pin, now, status_file,
          sent, training_scan, ran, exited, hist, pd>>

NoUser ==
    [present |-> FALSE, user_id |-> 0, badge_code |-> "", remaining_seconds |-> 0,
     session_seconds |-> 0, remaining_extensions |-> 0]

\* No badge was scanned in IN_TRAINING by the last input event.  Otherwise:
\* the badge, the UserContext the scan found, the answer of api.login ("" when
\* it was not called) and the arguments of the api.register_user calls.
NoScan == [badge_code |-> "", trainer |-> NoUser, login |-> "", calls |-> <<>>]

NoResp == [kind |-> "", remaining_seconds |-> 0, session_seconds |-> 0, remaining_extensions |-> 0]

NoEvent ==
    [trigger |-> "", badge_code |-> "", src |-> "", outcome |-> "", result |-> FALSE,
     prev |-> NoUser, resp |-> NoResp, now |-> 0, held |-> FALSE, expiry |-> FALSE]

NoLocal == [session_seconds |-> 0, remaining_seconds |-> 0, remaining_extensions |-> 0]

\* trip: "asserted" once IDLE has been entered with the bypass input asserted,
\* until BYPASSED is entered from IDLE or an input event arrives; "moved" (from
\* asserted) or "bypassed" while the machine is in BYPASSED, entered from
\* IDLE, with no input event but the clearing of the bypass input since;
\* "back" once it has returned to IDLE from there.
NoHist ==
    [quiet |-> FALSE, unlocked |-> FALSE, n |-> 0, ticks |-> 0, fired_at |-> 0, trip |-> ""]

\* pc off: the power-down sequence is taken as one step (disable_power).
NoPd ==
    [pc |-> "off", was_high |-> FALSE, elapsed |-> 0, sense |-> FALSE, reading |-> "",
     running |-> FALSE]

\* A call of a trigger.  expiry: the call is the logout() of a SessionTimer tick.
Trig(t, b) == [trigger |-> t, badge_code |-> b, expiry |-> FALSE]

\* The options of a run: <<ALLOW_USER_OVERRIDE, IS_A_DOOR, DOOR_CONTINUOUS_UNLOCK,
\* DISABLE_TRAINING_MODE>>.  The code consults the two door options only
\* together, so each of them is set alone in one of the runs.
OptionChoices ==
    { <<FALSE, TRUE, FALSE, FALSE>>,
      <<TRUE, FALSE, TRUE, FALSE>>,
      <<FALSE, TRUE, TRUE, FALSE>>,
      <<FALSE, FALSE, FALSE, TRUE>> }

Configs ==
    { [ALLOW_USER_OVERRIDE |-> o[1], IS_A_DOOR |-> o[2], DOOR_CONTINUOUS_UNLOCK |-> o[3],
       DISABLE_TRAINING_MODE |-> o[4], USE_ESTOP |-> TRUE, ESTOP_ACTIVE_HI |-> TRUE,
       USE_BYPASS_DETECT |-> TRUE, DOOR_NORMAL_HR_START |-> 800,
       DOOR_NORMAL_HR_END |-> 1700, MAX_POWER_DOWN_TIMEOUT |-> Inf,
       LOGOUT_COAST_TIME |-> 0] : o \in OptionChoices }

\* ------------------------------------------------- the mutable program state
\* The entry actions and guards are sequential code over several fields; they
\* are written as functions of this record, composed in the order of the code.
W ==
    [user_info |-> user_info, relay |-> relay, logout_timer |-> logout_timer,
     relock_timer |-> relock_timer, sessT |-> sessT, relT |-> relT, sent |-> sent]

Apply(w) ==
    /\ user_info' = w.user_info
    /\ relay' = w.relay
    /\ logout_timer' = w.logout_timer
    /\ relock_timer' = w.relock_timer
    /\ sessT' = w.sessT
    /\ relT' = w.relT
    /\ sent' = w.sent

\* The Timer objects of one kind are kept without their identity: t[st][named]
\* is the number of objects in status st, named TRUE for the object the field
\* of the client (self.__logout_timer, self.__relock_timer) references.  An
\* object whose thread has ended is no longer counted; the field may still
\* reference it.
NoTimers == [st \in TimerStatuses |-> [named \in BOOLEAN |-> 0]]

AddTimer(t, st, named) == [t EXCEPT ![st][named] = @ + 1]

RemoveTimer(t, st, named) == [t EXCEPT ![st][named] = @ - 1]

CountStatus(t, st) == t[st][TRUE] + t[st][FALSE]

\* started, not cancelled, not fired
Live(t) == CountStatus(t, "armed")

\* the threads of fired timers that have not ended
Pending(t) ==
    CountStatus(t, "fired") + CountStatus(t, "expired") + CountStatus(t, "rearm")
        + CountStatus(t, "create")

\* The field is assigned: it references none of the objects any more.
Unname(t) ==
    [st \in TimerStatuses |-> [named \in BOOLEAN |-> IF named THEN 0 ELSE CountStatus(t, st)]]

\* A timer may fire while fewer than MaxPending timer threads are running.
MayFire == Pending(sessT) + Pending(relT) < MaxPending

\* ------------------------------------------------------------ conditions
is_estop_activated ==
    opts.USE_ESTOP /\ ( (opts.ESTOP_ACTIVE_HI /\ estop_pin)
                        \/ (~opts.ESTOP_ACTIVE_HI /\ ~estop_pin) )

is_bypass_detected == opts.USE_BYPASS_DETECT /\ bypass_pin

is_terminated == state = TERMINATED

\* HHMM option to seconds of the day, clamped as the code clamps it.
ClampHHMM(t) ==
    LET c == IF t < 0 THEN 0 ELSE IF t > 2359 THEN 2359 ELSE t
        hr == c \div 100
        mn == IF c % 100 > 59 THEN 59 ELSE c % 100
    IN  hr * 3600 + mn * 60

\* Fault: the end of the window is compared with <.
is_normal_hours_exclusive_end(t) ==
    /\ ClampHHMM(opts.DOOR_NORMAL_HR_START) <= t
    /\ t < ClampHHMM(opts.DOOR_NORMAL_HR_END)

is_normal_hours(t) ==
    /\ ClampHHMM(opts.DOOR_NORMAL_HR_START) <= t
    /\ t <= ClampHHMM(opts.DOOR_NORMAL_HR_END)

\* Fault: DISABLE_TRAINING_MODE is not consulted.
is_waiting_for_training_ignores_option(held) ==
    IF opts.IS_A_DOOR /\ opts.DOOR_CONTINUOUS_UNLOCK THEN FALSE ELSE held

\* held: the last read of PIN_LOGOUT, after the polling window.
is_waiting_for_training(held) ==
    IF (opts.IS_A_DOOR /\ opts.DOOR_CONTINUOUS_UNLOCK) \/ opts.DISABLE_TRAINING_MODE
    THEN FALSE
    ELSE held

is_current_badge_code(w, badge_code) ==
    w.user_info.present /\ w.user_info.badge_code = badge_code

\* ------------------------------------------------------------------ timers
\* Fault: the timer is cancelled but self.__logout_timer keeps naming it.
cancel_logout_timer_keeps_handle(w) ==
    [w EXCEPT !.sessT = Unname([@ EXCEPT !["armed"][TRUE] = 0])]

\* Timer.cancel() stops a timer that has not fired; on one whose thread is
\* already running it has no effect.  The field is set to None.
cancel_logout_timer(w) ==
    [w EXCEPT !.sessT = Unname([@ EXCEPT !["armed"][TRUE] = 0]),
              !.logout_timer = 0]

start_logout_timer(w) ==
    LET c == cancel_logout_timer(w)
    IN  [c EXCEPT !.sessT = AddTimer(@, "armed", TRUE), !.logout_timer = 1]

cancel_relock_timer(w) ==
    [w EXCEPT !.relT = Unname([@ EXCEPT !["armed"][TRUE] = 0]),
              !.relock_timer = 0]

\* self.__relock_timer = threading.Timer(60, ...); self.__relock_timer.start()
create_relock_timer(w) ==
    [w EXCEPT !.relT = AddTimer(Unname(@), "armed", TRUE), !.relock_timer = 1]

start_relock_timer(w) == create_relock_timer(cancel_relock_timer(w))

\* ------------------------------------------------------------ entry actions
\* Fault: the UserContext is cleared without the logout notification.
do_logout_silent(w) ==
    [cancel_relock_timer(cancel_logout_timer(w)) EXCEPT !.user_info = NoUser]

\* Fault: the logout notification is sent but the UserContext is kept.
do_logout_keeps_user(w) ==
    LET c == cancel_relock_timer(cancel_logout_timer(w))
    IN  [c EXCEPT !.sent = IF c.user_info.present THEN Append(@, c.user_info.badge_code) ELSE @]

\* If there is a UserContext, threading.Timer(0, api.logout, (badge_code,)).start();
\* then the UserContext is cleared.
do_logout(w) ==
    LET c == cancel_relock_timer(cancel_logout_timer(w))
    IN  [c EXCEPT !.sent = IF c.user_info.present THEN Append(@, c.user_info.badge_code) ELSE @,
                  !.user_info = NoUser]

enable_power(w) == [w EXCEPT !.relay = TRUE]

\* Fault: the power-down sequence returns without driving the relay low.
disable_power_skipped(w) == w

\* After the wait for the machine to stop and the coast time, the relay is
\* driven low if it reads high.
disable_power(w) == IF w.relay THEN [w EXCEPT !.relay = FALSE] ELSE w

ensure_idle(w) == disable_power(do_logout(w))

ensure_estop(w) == disable_power(do_logout(w))

ensure_bypass(w) == disable_power(do_logout(w))

ensure_training_mode(w) == disable_power(do_logout(w))

ensure_unlocked(w) == enable_power(do_logout(w))

ensure_in_use(w) == enable_power(w)

on_enter(s, w) ==
    CASE s = ESTOP -> ensure_estop(w)
      [] s = BYPASSED -> ensure_bypass(w)
      [] s = IDLE -> ensure_idle(w)
      [] s = UNLOCKED -> start_relock_timer(ensure_unlocked(w))
      [] s = IN_USE -> start_logout_timer(ensure_in_use(w))
      [] s = IN_TRAINING -> ensure_training_mode(w)
      [] s = TERMINATED -> ensure_idle(w)
      [] OTHER -> w

\* ------------------------------------------------- the authorization service
\* What api.login can answer: a UserContext, or one of the two failures.
Grants ==
    [kind : {"ok"}, remaining_seconds : 0 .. MaxRemaining,
     session_seconds : SessionSecondsChoices, remaining_extensions : ExtensionChoices]

Failures ==
    [kind : {"unauthorized", "error"}, remaining_seconds : {0},
     session_seconds : {0}, remaining_extensions : {0}]

LoginResponses == Grants \cup Failures

update_user_context(w, badge_code, resp) ==
    [w EXCEPT !.user_info = [present |-> TRUE, user_id |-> UserId(badge_code),
                             badge_code |-> badge_code,
                             remaining_seconds |-> resp.remaining_seconds,
                             session_seconds |-> resp.session_seconds,
                             remaining_extensions |-> resp.remaining_extensions]]

\* Fault: the two failure branches are swapped, so a refused login from IDLE
\* ends in __ensure_in_use.
do_login_swapped(w, override, badge_code, resp) ==
    IF resp.kind = "ok"
    THEN update_user_context(w, badge_code, resp)
    ELSE IF override THEN ensure_idle(w) ELSE ensure_in_use(w)

\* Fault: a refused override login logs the current user out.
do_login_clears_user(w, override, badge_code, resp) ==
    IF resp.kind = "ok"
    THEN update_user_context(w, badge_code, resp)
    ELSE IF ~override THEN ensure_idle(w) ELSE ensure_in_use(do_logout(w))

do_login(w, override, badge_code, resp) ==
    IF resp.kind = "ok"
    THEN update_user_context(w, badge_code, resp)
    ELSE IF ~override THEN ensure_idle(w) ELSE ensure_in_use(w)

\* The locals __extend_session reads after it has cancelled the timer.
extend_read(w) ==
    [session_seconds |-> w.user_info.session_seconds,
     remaining_seconds |-> w.user_info.remaining_seconds,
     remaining_extensions |-> w.user_info.remaining_extensions]

\* The writes of __extend_session, from the locals l, and the restart of the timer.
extend_write(w, l) ==
    LET u == IF l.remaining_extensions # 0
             THEN [w.user_info EXCEPT
                     !.remaining_extensions =
                         IF l.remaining_extensions # Inf THEN l.remaining_extensions - 1 ELSE @,
                     !.remaining_seconds = l.remaining_seconds + l.session_seconds]
             ELSE w.user_info
    IN  start_logout_timer([w EXCEPT !.user_info = u])

\* ------------------------------------------------------- transitions table
\* Fault: the estop transition is declared with source '*'.
transitions_estop_from_any ==
    << [source |-> {INITIALIZED, ESTOP, BYPASSED}, trigger |-> T_IDLE, dest |-> IDLE,
        conditions |-> ""],
       [source |-> States, trigger |-> T_ESTOP, dest |-> ESTOP, conditions |-> ""],
       [source |-> {INITIALIZED, ESTOP, IDLE, IN_TRAINING}, trigger |-> T_BYPASS,
        dest |-> BYPASSED, conditions |-> ""],
       [source |-> {IDLE, IN_USE}, trigger |-> T_UNLOCK, dest |-> UNLOCKED,
        conditions |-> "is_normal_hours"],
       [source |-> {IDLE}, trigger |-> T_LOGIN, dest |-> IN_USE,
        conditions |-> "is_authorized"],
       [source |-> {IN_USE}, trigger |-> T_LOGIN, dest |-> IN_USE,
        conditions |-> "should_extend_current_session"],
       [source |-> {UNLOCKED, IN_USE, IN_TRAINING}, trigger |-> T_LOGOUT, dest |-> IDLE,
        conditions |-> ""],
       [source |-> {IDLE, ESTOP, BYPASSED}, trigger |-> T_LOGOUT, dest |-> IN_TRAINING,
        conditions |-> "is_waiting_for_training"],
       [source |-> States, trigger |-> T_TERMINATE, dest |-> TERMINATED,
        conditions |-> ""] >>

transitions ==
    << [source |-> {INITIALIZED, ESTOP, BYPASSED}, trigger |-> T_IDLE, dest |-> IDLE,
        conditions |-> ""],
       [source |-> {INITIALIZED, BYPASSED, IDLE, IN_USE, IN_TRAINING}, trigger |-> T_ESTOP,
        dest |-> ESTOP, conditions |-> ""],
       [source |-> {INITIALIZED, ESTOP, IDLE, IN_TRAINING}, trigger |-> T_BYPASS,
        dest |-> BYPASSED, conditions |-> ""],
       [source |-> {IDLE, IN_USE}, trigger |-> T_UNLOCK, dest |-> UNLOCKED,
        conditions |-> "is_normal_hours"],
       [source |-> {IDLE}, trigger |-> T_LOGIN, dest |-> IN_USE,
        conditions |-> "is_authorized"],
       [source |-> {IN_USE}, trigger |-> T_LOGIN, dest |-> IN_USE,
        conditions |-> "should_extend_current_session"],
       [source |-> {UNLOCKED, IN_USE, IN_TRAINING}, trigger |-> T_LOGOUT, dest |-> IDLE,
        conditions |-> ""],
       [source |-> {IDLE, ESTOP, BYPASSED}, trigger |-> T_LOGOUT, dest |-> IN_TRAINING,
        conditions |-> "is_waiting_for_training"],
       [source |-> States, trigger |-> T_TERMINATE, dest |-> TERMINATED,
        conditions |-> ""] >>

\* The transitions of trigger t whose source holds s, in the order of the table.
Candidates(t, s) ==
    SelectSeq(transitions, LAMBDA tr : tr.trigger = t /\ s \in tr.source)

\* --------------------------------------------------- Machine._process
\* Fault: queued=False, a trigger called during a transition is processed at
\* once, inside the running one.
Fire_nested(t, who) ==
    IF proc = "none"
    THEN /\ queue' = <<t>>
         /\ proc' = who
         /\ pc' = "begin"
    ELSE /\ Len(queue) < MaxQueue
         /\ queue' = <<t>> \o queue
         /\ pc' = "begin"
         /\ UNCHANGED proc

\* A trigger called by thread who: processed by who when the queue is empty,
\* appended to the queue of the running thread otherwise.
Fire(t, who) ==
    IF proc = "none"
    THEN /\ queue' = <<t>>
         /\ proc' = who
         /\ pc' = "begin"
    ELSE /\ Len(queue) < MaxQueue
         /\ queue' = Append(queue, t)
         /\ UNCHANGED <<proc, pc>>

\* The running trigger leaves the queue; the thread takes the next one or returns.
Pop(q) ==
    /\ queue' = q
    /\ ev' = NoEvent
    /\ IF q = <<>>
       THEN proc' = "none" /\ pc' = "idle"
       ELSE pc' = "begin" /\ UNCHANGED proc

\* The EventData of the running trigger: result is whether a transition executes,
\* prev the UserContext it started with, resp the answer of api.login, now
\* the datetime.now() of is_normal_hours and held the level of PIN_LOGOUT
\* after the wait of is_waiting_for_training, where the guard has them.
Event(outcome, result, resp) ==
    [trigger |-> Head(queue).trigger, badge_code |-> Head(queue).badge_code,
     src |-> state, outcome |-> outcome, result |-> result, prev |-> user_info,
     resp |-> resp, now |-> 0, held |-> FALSE, expiry |-> Head(queue).expiry]

Processing(at) == proc # "none" /\ pc = at /\ queue # <<>>

\* Event._trigger: the state is no source of the trigger (ignore_invalid_triggers).
BeginIgnored ==
    /\ Processing("begin")
    /\ Candidates(Head(queue).trigger, state) = <<>>
    /\ ev' = Event("ignored", FALSE, NoResp)
    /\ pc' = "done"
    /\ UNCHANGED <<opts, pd, state, user_info, relay, logout_timer, relock_timer, sessT, relT,
                   queue, proc, local, estop_pin, bypass_pin, now, status_file, sent,
                   training_scan, ran, exited, hist>>

\* Transition.execute without conditions: the state is set, the entry action follows.
BeginUnconditional ==
    /\ Processing("begin")
    /\ Candidates(Head(queue).trigger, state) # <<>>
    /\ LET tr == Candidates(Head(queue).trigger, state)[1]
       IN  /\ tr.conditions = ""
           /\ state' = tr.dest
    /\ ev' = Event("accepted", TRUE, NoResp)
    /\ pc' = "enter"
    /\ UNCHANGED <<opts, pd, user_info, relay, logout_timer, relock_timer, sessT, relT,
                   queue, proc, local, estop_pin, bypass_pin, now, status_file, sent,
                   training_scan, ran, exited, hist>>

\* unlock, guarded by is_normal_hours.
BeginUnlock ==
    /\ Processing("begin")
    /\ Candidates(Head(queue).trigger, state) # <<>>
    /\ LET tr == Candidates(Head(queue).trigger, state)[1]
       IN  /\ tr.conditions = "is_normal_hours"
           /\ \E t \in NowChoices :
                IF is_normal_hours(t)
                THEN /\ state' = tr.dest
                     /\ ev' = [Event("accepted", TRUE, NoResp) EXCEPT !.now = t]
                     /\ pc' = "enter"
                ELSE /\ state' = state
                     /\ ev' = [Event("rejected", FALSE, NoResp) EXCEPT !.now = t]
                     /\ pc' = "done"
    /\ UNCHANGED <<opts, pd, user_info, relay, logout_timer, relock_timer, sessT, relT,
                   queue, proc, local, estop_pin, bypass_pin, now, status_file, sent,
                   training_scan, ran, exited, hist>>

\* login from IDLE, guarded by is_authorized: __do_login(False, badge_code).
is_authorized(w, badge_code, resp) == do_login(w, FALSE, badge_code, resp)

BeginLoginIdle ==
    /\ Processing("begin")
    /\ Candidates(Head(queue).trigger, state) # <<>>
    /\ LET tr == Candidates(Head(queue).trigger, state)[1]
       IN  /\ tr.conditions = "is_authorized"
           /\ \E resp \in LoginResponses :
                LET w == is_authorized(W, Head(queue).badge_code, resp)
                IN  /\ Apply(w)
                    /\ IF w.user_info.present
                       THEN state' = tr.dest /\ ev' = Event("login_ok", TRUE, resp) /\ pc' = "enter"
                       ELSE state' = state /\ ev' = Event(resp.kind, FALSE, resp) /\ pc' = "done"
    /\ UNCHANGED <<opts, pd, queue, proc, local, estop_pin, bypass_pin, now, status_file,
                   training_scan, ran, exited, hist>>

\* login in IN_USE, guarded by should_extend_current_session: the same badge
\* starts __extend_session, which cancels the timer and reads its locals.
BeginExtend ==
    /\ Processing("begin")
    /\ Candidates(Head(queue).trigger, state) # <<>>
    /\ Candidates(Head(queue).trigger, state)[1].conditions = "should_extend_current_session"
    /\ is_current_badge_code(W, Head(queue).badge_code)
    /\ LET w == cancel_logout_timer(W)
       IN  /\ Apply(w)
           /\ local' = extend_read(w)
    /\ ev' = Event("extend", FALSE, NoResp)
    /\ pc' = "extend"
    /\ UNCHANGED <<opts, pd, state, queue, proc, estop_pin, bypass_pin, now, status_file,
                   training_scan, ran, exited, hist>>

\* The rest of __extend_session; the guard returns True and the state is set.
ExtendWrite ==
    /\ Processing("extend")
    /\ Apply(extend_write(W, local))
    /\ local' = NoLocal
    /\ state' = IN_USE
    /\ ev' = [ev EXCEPT !.outcome = IF local.remaining_extensions # 0
                                    THEN "extended" ELSE "no_extensions",
                        !.result = TRUE]
    /\ pc' = "enter"
    /\ UNCHANGED <<opts, pd, queue, proc, estop_pin, bypass_pin, now, status_file,
                   training_scan, ran, exited, hist>>

\* Another badge with ALLOW_USER_OVERRIDE: the timer is cancelled and
\* __do_login(True, badge_code) runs; the guard returns True whatever it answers.
override_login(w, badge_code, resp) == do_login(cancel_logout_timer(w), TRUE, badge_code, resp)

BeginOverride ==
    /\ Processing("begin")
    /\ Candidates(Head(queue).trigger, state) # <<>>
    /\ Candidates(Head(queue).trigger, state)[1].conditions = "should_extend_current_session"
    /\ ~is_current_badge_code(W, Head(queue).badge_code)
    /\ opts.ALLOW_USER_OVERRIDE
    /\ \E resp \in LoginResponses :
         /\ Apply(override_login(W, Head(queue).badge_code, resp))
         /\ ev' = Event(IF resp.kind = "ok" THEN "login_ok" ELSE resp.kind, TRUE, resp)
    /\ state' = IN_USE
    /\ pc' = "enter"
    /\ UNCHANGED <<opts, pd, queue, proc, local, estop_pin, bypass_pin, now, status_file,
                   training_scan, ran, exited, hist>>

\* Another badge without ALLOW_USER_OVERRIDE: the guard returns False.
BeginNoOverride ==
    /\ Processing("begin")
    /\ Candidates(Head(queue).trigger, state) # <<>>
    /\ Candidates(Head(queue).trigger, state)[1].conditions = "should_extend_current_session"
    /\ ~is_current_badge_code(W, Head(queue).badge_code)
    /\ ~opts.ALLOW_USER_OVERRIDE
    /\ ev' = Event("rejected", FALSE, NoResp)
    /\ pc' = "done"
    /\ UNCHANGED <<opts, pd, state, user_info, relay, logout_timer, relock_timer, sessT, relT,
                   queue, proc, local, estop_pin, bypass_pin, now, status_file, sent,
                   training_scan, ran, exited, hist>>

\* logout from IDLE, ESTOP or BYPASSED, guarded by is_waiting_for_training.
BeginTraining ==
    /\ Processing("begin")
    /\ Candidates(Head(queue).trigger, state) # <<>>
    /\ LET tr == Candidates(Head(queue).trigger, state)[1]
       IN  /\ tr.conditions = "is_waiting_for_training"
           /\ \E held \in BOOLEAN :
                IF is_waiting_for_training(held)
                THEN /\ state' = tr.dest
                     /\ ev' = [Event("accepted", TRUE, NoResp) EXCEPT !.held = held]
                     /\ pc' = "enter"
                ELSE /\ state' = state
                     /\ ev' = [Event("rejected", FALSE, NoResp) EXCEPT !.held = held]
                     /\ pc' = "done"
    /\ UNCHANGED <<opts, pd, user_info, relay, logout_timer, relock_timer, sessT, relT,
                   queue, proc, local, estop_pin, bypass_pin, now, status_file, sent,
                   training_scan, ran, exited, hist>>

\* The running transition is the only activity: no trigger waits behind it,
\* no timer thread is running and no timer is live.
StartsAlone ==
    /\ Len(queue) = 1
    /\ sessT = NoTimers
    /\ relT = NoTimers

\* Fault: on_enter_idle does not read the bypass input.
on_enter_idle_no_bypass(q) == q

\* on_enter_idle after __ensure_idle and the sleep: bypass() when the bypass
\* input is asserted; the trigger is queued behind the running one.
on_enter_idle_bypass(q) ==
    IF is_bypass_detected THEN Append(q, Trig(T_BYPASS, "")) ELSE q

\* The entry action of the new state.
Enter ==
    /\ Processing("enter")
    /\ Apply(on_enter(state, W))
    /\ queue' = IF state = IDLE THEN on_enter_idle_bypass(queue) ELSE queue
    /\ pc' = "done"
    /\ hist' = IF ev.outcome = "login_ok" /\ ev.src = IDLE
               THEN [NoHist EXCEPT !.quiet = TRUE, !.n = user_info.remaining_seconds]
               ELSE IF state = UNLOCKED /\ StartsAlone
               THEN [NoHist EXCEPT !.quiet = TRUE, !.unlocked = TRUE]
               ELSE IF state = BYPASSED /\ ev.src = IDLE
               THEN [NoHist EXCEPT !.trip = IF hist.trip = "asserted" THEN "moved"
                                            ELSE "bypassed"]
               ELSE IF state = IDLE /\ ev.src = BYPASSED /\ hist.trip \in {"bypassed", "moved"}
               THEN [NoHist EXCEPT !.trip = "back"]
               ELSE IF state = IDLE /\ is_bypass_detected
               THEN [NoHist EXCEPT !.trip = "asserted"]
               ELSE [hist EXCEPT !.trip = IF @ = "asserted" /\ state # BYPASSED THEN @ ELSE ""]
    /\ UNCHANGED <<opts, pd, state, proc, ev, local, estop_pin, bypass_pin, now, status_file,
                   training_scan, ran, exited>>

\* Fault: the file is written before the state is set (before_state_change).
update_status_before_change == ev.src \o "\n"

\* Client.status
status == state

\* '{0}\n'.format(self.status())
update_status == status \o "\n"

\* after_state_change = update_status when a transition was executed; then the
\* trigger leaves the queue.
Finish ==
    /\ Processing("done")
    /\ status_file' = IF ev.result THEN update_status ELSE status_file
    /\ Pop(Tail(queue))
    /\ sent' = <<>>
    /\ UNCHANGED <<opts, pd, state, user_info, relay, logout_timer, relock_timer, sessT, relT,
                   local, estop_pin, bypass_pin, now, training_scan, ran, exited, hist>>

\* ---------------------------------------------------------- input handlers
\* The device delivers its events one at a time on the input thread, which is
\* busy while it drains the queue itself.
InputFree == proc # "input" /\ ~exited

\* The handlers run from the main loop, which starts after the first trigger.
Listening == InputFree /\ ran

\* Client.run: the first trigger, from the levels of the inputs.
Run ==
    /\ InputFree
    /\ ~ran
    /\ ran' = TRUE
    /\ Fire(Trig(IF is_estop_activated THEN T_ESTOP
                 ELSE IF is_bypass_detected THEN T_BYPASS ELSE T_IDLE, ""), "input")
    /\ hist' = NoHist
    /\ training_scan' = NoScan
    /\ UNCHANGED <<opts, pd, state, user_info, relay, logout_timer, relock_timer, sessT, relT,
                   ev, local, estop_pin, bypass_pin, now, status_file, sent, exited>>

\* __activate_trainer: the login of the trainer, in IN_TRAINING.
activate_trainer(w, badge_code, resp) ==
    IF resp.kind = "ok" THEN update_user_context(w, badge_code, resp) ELSE w

\* handle_badge_code in IN_TRAINING without a trainer.
BadgeTrainer(badge_code) ==
    /\ Listening
    /\ state = IN_TRAINING
    /\ ~user_info.present
    /\ \E resp \in LoginResponses :
         /\ Apply(activate_trainer(W, badge_code, resp))
         /\ training_scan' = [badge_code |-> badge_code, trainer |-> user_info,
                              login |-> resp.kind, calls |-> <<>>]
    /\ hist' = NoHist
    /\ UNCHANGED <<opts, pd, state, queue, proc, pc, ev, local, estop_pin, bypass_pin, now,
                   status_file, ran, exited>>

\* Fault: the trainer and the student are passed in each other's place.
register_student_swapped(w, badge_code) ==
    <<w.user_info.user_id, badge_code, w.user_info.badge_code>>

\* __register_student: api.register_user(trainer_id, trainer_badge_code, badge_code).
\* Whether the server accepts or raises, the UserContext is not touched.
register_student(w, badge_code) ==
    <<w.user_info.user_id, w.user_info.badge_code, badge_code>>

\* handle_badge_code in IN_TRAINING with a trainer: another badge is registered.
BadgeStudent(badge_code) ==
    /\ Listening
    /\ state = IN_TRAINING
    /\ user_info.present
    /\ training_scan' = [badge_code |-> badge_code, trainer |-> user_info, login |-> "",
                         calls |-> IF ~is_current_badge_code(W, badge_code)
                                   THEN <<register_student(W, badge_code)>> ELSE <<>>]
    /\ hist' = NoHist
    /\ UNCHANGED <<opts, pd, state, user_info, relay, logout_timer, relock_timer, sessT, relT,
                   queue, proc, pc, ev, local, estop_pin, bypass_pin, now, status_file,
                   sent, ran, exited>>

\* handle_badge_code in any other state: the login trigger.  Scans of the
\* current badge stop once an unbounded session is beyond MaxRemaining, which
\* keeps remaining_seconds finite.
BadgeLogin(badge_code) ==
    /\ Listening
    /\ state # IN_TRAINING
    /\ ~( /\ is_current_badge_code(W, badge_code)
          /\ user_info.remaining_extensions = Inf
          /\ user_info.remaining_seconds > MaxRemaining )
    /\ Fire(Trig(T_LOGIN, badge_code), "input")
    /\ hist' = NoHist
    /\ training_scan' = NoScan
    /\ UNCHANGED <<opts, pd, state, user_info, relay, logout_timer, relock_timer, sessT, relT,
                   ev, local, estop_pin, bypass_pin, now, status_file, sent, ran,
                   exited>>

\* Fault: the continuous-unlock option is not consulted.
logout_detected_any_door ==
    IF is_estop_activated /\ state = IN_TRAINING THEN T_ESTOP
    ELSE IF is_bypass_detected /\ state = IN_TRAINING THEN T_BYPASS
    ELSE IF opts.IS_A_DOOR /\ state \in {IDLE, IN_USE} THEN T_UNLOCK
    ELSE T_LOGOUT

\* The trigger logout_detected chooses, on a rising edge of PIN_LOGOUT.
logout_detected ==
    IF is_estop_activated /\ state = IN_TRAINING THEN T_ESTOP
    ELSE IF is_bypass_detected /\ state = IN_TRAINING THEN T_BYPASS
    ELSE IF opts.IS_A_DOOR /\ opts.DOOR_CONTINUOUS_UNLOCK /\ state \in {IDLE, IN_USE} THEN T_UNLOCK
    ELSE T_LOGOUT

LogoutDetected ==
    /\ Listening
    /\ Fire(Trig(logout_detected, ""), "input")
    /\ hist' = NoHist
    /\ training_scan' = NoScan
    /\ UNCHANGED <<opts, pd, state, user_info, relay, logout_timer, relock_timer, sessT, relT,
                   ev, local, estop_pin, bypass_pin, now, status_file, sent, ran,
                   exited>>

\* Fault: the bypass input is not consulted when the E-stop clears.
estop_change_no_bypass(active, bypass) ==
    IF active THEN (IF state # IN_TRAINING THEN T_ESTOP ELSE "")
    ELSE IF state = ESTOP THEN T_IDLE
    ELSE ""

\* The trigger estop_change chooses once the input has its new level: "" for none.
estop_change(active, bypass) ==
    IF active THEN (IF state # IN_TRAINING THEN T_ESTOP ELSE "")
    ELSE IF state = ESTOP THEN (IF bypass THEN T_BYPASS ELSE T_IDLE)
    ELSE ""

EstopChange ==
    /\ Listening
    /\ opts.USE_ESTOP
    /\ estop_pin' = ~estop_pin
    /\ LET t == estop_change(opts.ESTOP_ACTIVE_HI = estop_pin', is_bypass_detected)
       IN  IF t = "" THEN UNCHANGED <<queue, proc, pc>> ELSE Fire(Trig(t, ""), "input")
    /\ hist' = NoHist
    /\ training_scan' = NoScan
    /\ UNCHANGED <<opts, pd, state, user_info, relay, logout_timer, relock_timer, sessT, relT,
                   ev, local, bypass_pin, now, status_file, sent, ran, exited>>

\* The trigger bypass_change chooses once the input has its new level: "" for none.
bypass_change(detected) ==
    IF detected THEN (IF state = IDLE THEN T_BYPASS ELSE "")
    ELSE IF state = BYPASSED THEN T_IDLE
    ELSE ""

BypassChange ==
    /\ Listening
    /\ opts.USE_BYPASS_DETECT
    /\ bypass_pin' = ~bypass_pin
    /\ LET t == bypass_change(bypass_pin')
       IN  IF t = "" THEN UNCHANGED <<queue, proc, pc>> ELSE Fire(Trig(t, ""), "input")
    /\ hist' = IF state = BYPASSED /\ ~bypass_pin' /\ hist.trip \in {"bypassed", "moved"}
               THEN [NoHist EXCEPT !.trip = hist.trip]
               ELSE NoHist
    /\ training_scan' = NoScan
    /\ UNCHANGED <<opts, pd, state, user_info, relay, logout_timer, relock_timer, sessT, relT,
                   ev, local, estop_pin, now, status_file, sent, ran, exited>>

\* __exit__: the terminate trigger; the main loop is over.
Terminate ==
    /\ InputFree
    /\ exited' = TRUE
    /\ Fire(Trig(T_TERMINATE, ""), "input")
    /\ hist' = NoHist
    /\ training_scan' = NoScan
    /\ UNCHANGED <<opts, pd, state, user_info, relay, logout_timer, relock_timer, sessT, relT,
                   ev, local, estop_pin, bypass_pin, now, status_file, sent, ran>>

\* ------------------------------------------------------------ SessionTimer
\* The interval of an armed timer elapses: its thread starts, and from here
\* cancel() no longer stops it.
LogoutTimerFire(named) ==
    /\ sessT["armed"][named] > 0
    /\ MayFire
    /\ sessT' = AddTimer(RemoveTimer(sessT, "armed", named), "fired", named)
    /\ UNCHANGED <<opts, pd, state, user_info, relay, logout_timer, relock_timer, relT,
                   queue, proc, pc, ev, local, estop_pin, bypass_pin, now, status_file,
                   sent, training_scan, ran, exited, hist>>

\* __logout_timer_tick of the thread of a fired timer, from the acquire of the
\* lock to its release.  expired: the lock is released and logout() is still
\* to call.  Otherwise the thread ends.
logout_timer_tick(w, named) ==
    IF ~is_terminated /\ w.user_info.present /\ w.logout_timer # 0
    THEN IF w.user_info.remaining_seconds <= 0
         THEN [w EXCEPT !.sessT = AddTimer(RemoveTimer(@, "fired", named), "expired", named)]
         ELSE start_logout_timer(
                  [w EXCEPT !.user_info.remaining_seconds = @ - logout_timer_interval_seconds,
                            !.sessT = RemoveTimer(@, "fired", named)])
    ELSE [w EXCEPT !.sessT = RemoveTimer(@, "fired", named)]

LogoutTimerTick(named) ==
    /\ sessT["fired"][named] > 0
    /\ LET w == logout_timer_tick(W, named)
       IN  /\ Apply(w)
           /\ hist' = IF hist.quiet /\ ~hist.unlocked
                      THEN [hist EXCEPT !.ticks = @ + 1,
                                        !.fired_at = IF CountStatus(w.sessT, "expired")
                                                          > CountStatus(sessT, "expired")
                                                      THEN hist.ticks + 1 ELSE @]
                      ELSE hist
    /\ UNCHANGED <<opts, pd, state, queue, proc, pc, ev, local, estop_pin, bypass_pin, now,
                   status_file, training_scan, ran, exited>>

\* The tick that found remaining_seconds <= 0 calls logout(), outside the lock.
LogoutTimerExpire(named) ==
    /\ sessT["expired"][named] > 0
    /\ sessT' = RemoveTimer(sessT, "expired", named)
    /\ Fire([Trig(T_LOGOUT, "") EXCEPT !.expiry = TRUE], "timer")
    /\ UNCHANGED <<opts, pd, state, user_info, relay, logout_timer, relock_timer, relT,
                   ev, local, estop_pin, bypass_pin, now, status_file, sent, training_scan,
                   ran, exited, hist>>

\* ------------------------------------------------------------- RelockTimer
RelockTimerFire(named) ==
    /\ relT["armed"][named] > 0
    /\ MayFire
    /\ relT' = AddTimer(RemoveTimer(relT, "armed", named), "fired", named)
    /\ UNCHANGED <<opts, pd, state, user_info, relay, logout_timer, relock_timer, sessT,
                   queue, proc, pc, ev, local, estop_pin, bypass_pin, now, status_file,
                   sent, training_scan, ran, exited, hist>>

\* __relock_timer_tick up to its decision: nothing, logout() or a new timer.
relock_timer_tick(w, t) ==
    IF ~is_terminated /\ w.relock_timer # 0
    THEN IF ~is_normal_hours(t) THEN "expired" ELSE "rearm"
    ELSE "ended"

RelockTimerTick(named) ==
    /\ relT["fired"][named] > 0
    /\ \E t \in NowChoices :
         LET decision == relock_timer_tick(W, t)
         IN  /\ relT' = IF decision = "ended"
                        THEN RemoveTimer(relT, "fired", named)
                        ELSE AddTimer(RemoveTimer(relT, "fired", named), decision, named)
             /\ now' = IF decision = "ended" THEN now ELSE t
             /\ hist' = IF hist.quiet /\ hist.unlocked /\ decision = "expired"
                        THEN [hist EXCEPT !.fired_at = 1] ELSE hist
    /\ UNCHANGED <<opts, pd, state, user_info, relay, logout_timer, relock_timer, sessT,
                   queue, proc, pc, ev, local, estop_pin, bypass_pin, status_file,
                   sent, training_scan, ran, exited>>

\* The tick inside normal hours starts the next timer.  No lock covers
\* __start_relock_timer: its __cancel_relock_timer and the creation of the
\* timer are two steps of the tick thread, and a transition may run between them.
RelockTimerRearm(named) ==
    /\ relT["rearm"][named] > 0
    /\ Apply(cancel_relock_timer(
                 [W EXCEPT !.relT = AddTimer(RemoveTimer(@, "rearm", named), "create", named)]))
    /\ now' = 0
    /\ UNCHANGED <<opts, pd, state, queue, proc, pc, ev, local, estop_pin, bypass_pin,
                   status_file, training_scan, ran, exited, hist>>

\* The new timer of the tick is created and started; the tick thread ends.
\* The timers that are live at this point stay live and no field names them.
RelockTimerCreate(named) ==
    /\ relT["create"][named] > 0
    /\ Live(relT) <= MaxOrphans
    /\ Apply(create_relock_timer([W EXCEPT !.relT = RemoveTimer(@, "create", named)]))
    /\ UNCHANGED <<opts, pd, state, queue, proc, pc, ev, local, estop_pin, bypass_pin, now,
                   status_file, training_scan, ran, exited, hist>>

\* The tick outside normal hours calls logout().
RelockTimerExpire(named) ==
    /\ relT["expired"][named] > 0
    /\ relT' = RemoveTimer(relT, "expired", named)
    /\ Fire(Trig(T_LOGOUT, ""), "timer")
    /\ now' = 0
    /\ UNCHANGED <<opts, pd, state, user_info, relay, logout_timer, relock_timer, sessT,
                   ev, local, estop_pin, bypass_pin, status_file, sent, training_scan,
                   ran, exited, hist>>

\* ------------------------------------------------------------ specification
Init ==
    /\ opts \in Configs
    /\ state = INITIALIZED
    /\ user_info = NoUser
    /\ relay = FALSE
    /\ logout_timer = 0
    /\ relock_timer = 0
    /\ sessT = NoTimers
    /\ relT = NoTimers
    /\ queue = <<>>
    /\ proc = "none"
    /\ pc = "idle"
    /\ ev = NoEvent
    /\ local = NoLocal
    /\ estop_pin \in BOOLEAN
    /\ bypass_pin \in BOOLEAN
    /\ now = 0
    /\ status_file = INITIALIZED \o "\n"
    /\ sent = <<>>
    /\ training_scan = NoScan
    /\ ran = FALSE
    /\ exited = FALSE
    /\ hist = NoHist
    /\ pd = NoPd

Next ==
    \/ Run
    \/ \E b \in Badges : BadgeTrainer(b)
    \/ \E b \in Badges : BadgeStudent(b)
    \/ \E b \in Badges : BadgeLogin(b)
    \/ LogoutDetected
    \/ EstopChange
    \/ BypassChange
    \/ Terminate
    \/ BeginIgnored
    \/ BeginUnconditional
    \/ BeginUnlock
    \/ BeginLoginIdle
    \/ BeginExtend
    \/ ExtendWrite
    \/ BeginOverride
    \/ BeginNoOverride
    \/ BeginTraining
    \/ Enter
    \/ Finish
    \/ \E named \in BOOLEAN : LogoutTimerFire(named)
    \/ \E named \in BOOLEAN : LogoutTimerTick(named)
    \/ \E named \in BOOLEAN : LogoutTimerExpire(named)
    \/ \E named \in BOOLEAN : RelockTimerFire(named)
    \/ \E named \in BOOLEAN : RelockTimerTick(named)
    \/ \E named \in BOOLEAN : RelockTimerRearm(named)
    \/ \E named \in BOOLEAN : RelockTimerCreate(named)
    \/ \E named \in BOOLEAN : RelockTimerExpire(named)

Spec == Init /\ [][Next]_vars

\* ====================================================================
\* Progress
\* ====================================================================
\* The runs of a machine that is no door, with no override and training mode
\* disabled: the modes are INITIALIZED, IDLE, IN_USE, ESTOP, BYPASSED and
\* TERMINATED, and the only timer is the SessionTimer.
FairInit == Init /\ opts.DISABLE_TRAINING_MODE

\* The steps of the thread that drains the transition queue.
MachineStep ==
    \/ BeginIgnored
    \/ BeginUnconditional
    \/ BeginLoginIdle
    \/ BeginExtend
    \/ ExtendWrite
    \/ BeginNoOverride
    \/ BeginTraining
    \/ Enter
    \/ Finish

\* The steps of the SessionTimer threads.
SessionTimerStep ==
    \E named \in BOOLEAN :
        LogoutTimerFire(named) \/ LogoutTimerTick(named) \/ LogoutTimerExpire(named)

FairNext ==
    \/ Run
    \/ \E b \in Badges : BadgeLogin(b)
    \/ LogoutDetected
    \/ EstopChange
    \/ BypassChange
    \/ Terminate
    \/ BeginIgnored
    \/ BeginUnconditional
    \/ BeginLoginIdle
    \/ BeginExtend
    \/ ExtendWrite
    \/ BeginNoOverride
    \/ BeginTraining
    \/ Enter
    \/ Finish
    \/ \E named \in BOOLEAN : LogoutTimerFire(named)
    \/ \E named \in BOOLEAN : LogoutTimerTick(named)
    \/ \E named \in BOOLEAN : LogoutTimerExpire(named)

\* The thread in a transition goes on (it is never blocked for good: the
\* sleeps and the calls of an entry action return); an armed SessionTimer
\* fires after its interval and its thread runs.  The input events are free.
FairSpec ==
    /\ FairInit
    /\ [][FairNext]_vars
    /\ WF_vars(MachineStep)
    /\ SF_vars(SessionTimerStep)

\* ====================================================================
\* __disable_power step by step
\* ====================================================================
\* The entry actions of IDLE, ESTOP, BYPASSED, IN_TRAINING and TERMINATED end
\* with __disable_power.  Here the thread of the running transition is
\* followed through it, with the current-sense input changing as it likes.
\* Time is counted in half seconds, the sleep of the polling loop.
PowerConfigs ==
    { [c EXCEPT !.MAX_POWER_DOWN_TIMEOUT = t, !.LOGOUT_COAST_TIME = k] :
          c \in Configs, t \in TimeoutChoices, k \in CoastChoices }

\* The transitions of the table that end in a mode whose entry action calls
\* __disable_power.
PowerDownEntries ==
    { i \in 1 .. Len(transitions) :
          transitions[i].dest \in {IDLE, ESTOP, BYPASSED, IN_TRAINING, TERMINATED} }

\* A transition of PowerDownEntries has set the state and its entry action
\* has reached __disable_power; the relay is as the source mode left it.
PowerInit ==
    /\ opts \in PowerConfigs
    /\ \E i \in PowerDownEntries :
         /\ state = transitions[i].dest
         /\ queue = <<Trig(transitions[i].trigger, "")>>
         /\ \E src \in transitions[i].source :
              /\ ev = [NoEvent EXCEPT !.trigger = transitions[i].trigger, !.src = src,
                                      !.outcome = "accepted", !.result = TRUE]
              /\ relay \in (IF src \in {IN_USE, UNLOCKED} THEN {TRUE} ELSE BOOLEAN)
    /\ user_info = NoUser
    /\ logout_timer = 0
    /\ relock_timer = 0
    /\ sessT = NoTimers
    /\ relT = NoTimers
    /\ proc = "input"
    /\ pc = "enter"
    /\ local = NoLocal
    /\ estop_pin \in BOOLEAN
    /\ bypass_pin = FALSE
    /\ now = 0
    /\ status_file = ev.src \o "\n"
    /\ sent = <<>>
    /\ training_scan = NoScan
    /\ ran = TRUE
    /\ exited = (state = TERMINATED)
    /\ hist = NoHist
    /\ \E level \in BOOLEAN : pd = [NoPd EXCEPT !.pc = "start", !.sense = level]

\* __disable_power: the first read of the relay pin; current = time.time().
PdStart ==
    /\ pd.pc = "start"
    /\ pd' = [pd EXCEPT !.pc = IF relay THEN "wait" ELSE "write", !.was_high = relay,
                        !.elapsed = 0]
    /\ UNCHANGED <<opts, state, user_info, relay, logout_timer, relock_timer, sessT, relT,
                   queue, proc, pc, ev, local, estop_pin, bypass_pin, now, status_file,
                   sent, training_scan, ran, exited, hist>>

\* time.time() - current < max_power_down_timeout
within_power_down_timeout(elapsed) ==
    opts.MAX_POWER_DOWN_TIMEOUT = Inf \/ elapsed < opts.MAX_POWER_DOWN_TIMEOUT

\* Fault: the loop ends at once, the current-sense pin is never read.
PdWait_skips_sense ==
    /\ pd.pc = "wait"
    /\ pd' = [pd EXCEPT !.pc = IF pd.running THEN "coast" ELSE "write"]
    /\ UNCHANGED <<opts, state, user_info, relay, logout_timer, relock_timer, sessT, relT,
                   queue, proc, pc, ev, local, estop_pin, bypass_pin, now, status_file,
                   sent, training_scan, ran, exited, hist>>

\* Fault: the timeout is not part of the loop condition.
PdWait_without_timeout ==
    /\ pd.pc = "wait"
    /\ pd' = IF pd.sense
             THEN [pd EXCEPT !.pc = "sleep", !.reading = "high", !.running = TRUE]
             ELSE [pd EXCEPT !.pc = IF pd.running THEN "coast" ELSE "write",
                             !.reading = "low"]
    /\ UNCHANGED <<opts, state, user_info, relay, logout_timer, relock_timer, sessT, relT,
                   queue, proc, pc, ev, local, estop_pin, bypass_pin, now, status_file,
                   sent, training_scan, ran, exited, hist>>

\* __wait_for_power_down: the condition of the while loop.  The pin is read
\* only when the timeout has not elapsed; the loop body sets is_machine_running.
\* After the loop, __disable_power coasts if the machine was seen running.
PdWait ==
    /\ pd.pc = "wait"
    /\ pd' = IF within_power_down_timeout(pd.elapsed)
             THEN IF pd.sense
                  THEN [pd EXCEPT !.pc = "sleep", !.reading = "high", !.running = TRUE]
                  ELSE [pd EXCEPT !.pc = IF pd.running THEN "coast" ELSE "write",
                                  !.reading = "low"]
             ELSE [pd EXCEPT !.pc = IF pd.running THEN "coast" ELSE "write"]
    /\ UNCHANGED <<opts, state, user_info, relay, logout_timer, relock_timer, sessT, relT,
                   queue, proc, pc, ev, local, estop_pin, bypass_pin, now, status_file,
                   sent, training_scan, ran, exited, hist>>

\* time.sleep(0.5) in the loop: one half second passes, or more.
PdSleep ==
    /\ pd.pc = "sleep"
    /\ \E d \in 1 .. 2 :
         pd' = [pd EXCEPT !.pc = "wait",
                          !.elapsed = IF @ + d > MaxElapsed THEN MaxElapsed ELSE @ + d]
    /\ UNCHANGED <<opts, state, user_info, relay, logout_timer, relock_timer, sessT, relT,
                   queue, proc, pc, ev, local, estop_pin, bypass_pin, now, status_file,
                   sent, training_scan, ran, exited, hist>>

\* __wait_for_logout_coast_time: sleeps LOGOUT_COAST_TIME seconds when it is set.
PdCoast ==
    /\ pd.pc = "coast"
    /\ pd' = [pd EXCEPT !.pc = "write",
                        !.elapsed = IF @ + 2 * opts.LOGOUT_COAST_TIME > MaxElapsed
                                    THEN MaxElapsed ELSE @ + 2 * opts.LOGOUT_COAST_TIME]
    /\ UNCHANGED <<opts, state, user_info, relay, logout_timer, relock_timer, sessT, relT,
                   queue, proc, pc, ev, local, estop_pin, bypass_pin, now, status_file,
                   sent, training_scan, ran, exited, hist>>

\* __disable_power: the second read of the relay pin and the write of False.
PdWrite ==
    /\ pd.pc = "write"
    /\ relay' = IF relay THEN FALSE ELSE relay
    /\ pd' = [pd EXCEPT !.pc = "returned"]
    /\ UNCHANGED <<opts, state, user_info, logout_timer, relock_timer, sessT, relT,
                   queue, proc, pc, ev, local, estop_pin, bypass_pin, now, status_file,
                   sent, training_scan, ran, exited, hist>>

\* __disable_power has returned: the entry action is over.
PdReturn ==
    /\ pd.pc = "returned"
    /\ Processing("enter")
    /\ pc' = "done"
    /\ UNCHANGED <<opts, pd, state, user_info, relay, logout_timer, relock_timer, sessT,
                   relT, queue, proc, ev, local, estop_pin, bypass_pin, now, status_file,
                   sent, training_scan, ran, exited, hist>>

\* The machine starts or stops drawing current.
SenseChange ==
    /\ pd.pc \notin {"off", "returned"}
    /\ pd' = [pd EXCEPT !.sense = ~@]
    /\ UNCHANGED <<opts, state, user_info, relay, logout_timer, relock_timer, sessT, relT,
                   queue, proc, pc, ev, local, estop_pin, bypass_pin, now, status_file,
                   sent, training_scan, ran, exited, hist>>

\* The steps of the thread that runs the transition.
PowerThread ==
    \/ PdStart
    \/ PdWait
    \/ PdSleep
    \/ PdCoast
    \/ PdWrite
    \/ PdReturn
    \/ Finish

PowerNext ==
    \/ PdStart
    \/ PdWait
    \/ PdSleep
    \/ PdCoast
    \/ PdWrite
    \/ PdReturn
    \/ Finish
    \/ SenseChange

\* The thread is not stopped: it takes its next step whenever it has one.
\* Nothing is assumed of the current-sense input.
PowerSpec == PowerInit /\ [][PowerNext]_vars /\ WF_vars(PowerThread)

\* ====================================================================
\* Properties
\* ====================================================================
\* No transition is in progress: the queue is empty and no thread is in
\* Machine._process.
Quiescent == proc = "none"

\* The step that runs the entry action of the running transition.
EnterStep == pc = "enter" /\ pc' = "done"

NoSessionTimerLive == Live(sessT) = 0

\* C1: whenever no transition is in progress, the power relay is energized
\* if and only if the mode is IN_USE or UNLOCKED.
RelayMatchesMode == Quiescent => (relay <=> state \in {IN_USE, UNLOCKED})

\* C1 witness: at rest in UNLOCKED with the relay energized.
RelayHighAtRest == Quiescent /\ state = UNLOCKED /\ relay

\* C2: the relay goes from low to high only in the entry action of IN_USE
\* after a login the server accepted for the scanned badge, or in the entry
\* action of UNLOCKED after an unlock whose normal-hours guard held.
RelayRisesOnlyOnLoginOrUnlock ==
    [][ (~relay /\ relay') =>
          /\ EnterStep
          /\ \/ /\ state = IN_USE
                /\ ev.trigger = T_LOGIN
                /\ ev.resp.kind = "ok"
                /\ user_info.present
                /\ user_info.badge_code = ev.badge_code
             \/ /\ state = UNLOCKED
                /\ ev.trigger = T_UNLOCK
                /\ is_normal_hours(ev.now) ]_vars

\* C2 witness: the entry action of IN_USE has just energized the relay after
\* an accepted login from IDLE.
RelayRoseOnLogin ==
    pc = "done" /\ ev.trigger = T_LOGIN /\ ev.src = IDLE /\ ev.outcome = "login_ok" /\ relay

\* C3: a step that takes the mode out of IN_TRAINING, by any trigger but
\* terminate, while the E-stop input is active, takes it to ESTOP.
TrainingExitsToEstop ==
    [][ (state = IN_TRAINING /\ state' \notin {IN_TRAINING, TERMINATED} /\ is_estop_activated)
          => state' = ESTOP ]_vars

\* C4: the estop trigger processed in IN_USE ends in ESTOP with the relay low,
\* no SessionTimer, no UserContext and one logout sent for the badge that was
\* logged in; the E-stop edge to inactive in ESTOP fires bypass when bypass is
\* detected and idle otherwise, and these lead from ESTOP to BYPASSED and IDLE.
EstopCycle ==
    [][ /\ (EnterStep /\ ev.trigger = T_ESTOP /\ ev.src = IN_USE) =>
              /\ state' = ESTOP
              /\ ~relay'
              /\ logout_timer' = 0
              /\ NoSessionTimerLive'
              /\ ~user_info'.present
              /\ ev.prev.present
              /\ sent' = <<ev.prev.badge_code>>
        /\ (state = ESTOP /\ is_estop_activated /\ ~is_estop_activated') =>
              /\ queue' # <<>>
              /\ queue'[Len(queue')] =
                     Trig(IF is_bypass_detected THEN T_BYPASS ELSE T_IDLE, "")
        /\ (EnterStep /\ ev.src = ESTOP /\ ev.trigger = T_IDLE) => state' = IDLE
        /\ (EnterStep /\ ev.src = ESTOP /\ ev.trigger = T_BYPASS) => state' = BYPASSED ]_vars

\* C4 witness: the E-stop has cleared in ESTOP with bypass detected and the
\* machine has entered BYPASSED.
EstopClearedToBypassed ==
    pc = "done" /\ ev.src = ESTOP /\ ev.trigger = T_BYPASS /\ state = BYPASSED
    /\ ~is_estop_activated

\* C5: whenever no transition is in progress, a UserContext is present only
\* in IN_USE or IN_TRAINING.
UserOnlyInUseOrTraining ==
    Quiescent => (user_info.present => state \in {IN_USE, IN_TRAINING})

\* C5 witness: at rest in IN_TRAINING with the trainer logged in.
TrainerAtRest == Quiescent /\ state = IN_TRAINING /\ user_info.present

\* The login trigger whose guard got the answer unauthorized from the server
\* has been through its guard.
UnauthorizedLogin ==
    pc \in {"enter", "done"} /\ ev.trigger = T_LOGIN /\ ev.outcome = "unauthorized"

OverrideLogsOutPrevious ==
    [][ (EnterStep /\ ev.trigger = T_LOGIN /\ ev.src = IN_USE /\ ev.outcome = "login_ok") =>
          /\ state' = IN_USE
          /\ user_info'.present
          /\ user_info'.badge_code = ev.badge_code
          /\ user_info'.remaining_seconds = ev.resp.remaining_seconds
          /\ Live(sessT') = 1
          /\ logout_timer' # 0 /\ sessT'["armed"][TRUE] = 1
          /\ \E i \in 1 .. Len(sent') : sent'[i] = ev.prev.badge_code ]_vars

\* C8: in a session started from IDLE with remaining_seconds = n > 0 and no
\* input event since, the SessionTimer tick that calls logout is the n-th.
ExpiryOnNthTick ==
    (hist.quiet /\ hist.n > 0 /\ hist.fired_at # 0) => hist.fired_at = hist.n

\* C9: a step that ends a UserContext sends exactly one logout, for its badge,
\* and a logout is sent by no other step: a second session-ending trigger
\* finds no UserContext and sends nothing.
LogoutOncePerSession ==
    [][ /\ (user_info.present /\ ~user_info'.present) =>
               sent' = Append(sent, user_info.badge_code)
        /\ (sent' # sent /\ sent' # <<>>) =>
               /\ user_info.present
               /\ ~user_info'.present
               /\ sent' = Append(sent, user_info.badge_code) ]_vars

\* C9 witness: the logout of the session has been sent once by a logout
\* trigger, and another logout trigger is queued behind it.
LogoutSentWithAnotherQueued ==
    /\ pc = "done"
    /\ ev.trigger = T_LOGOUT
    /\ ev.src = IN_USE
    /\ ev.prev.present
    /\ sent = <<ev.prev.badge_code>>
    /\ Len(queue) = 2
    /\ queue[2].trigger = T_LOGOUT

\* C10: a scan of the current badge in IN_USE keeps the mode; with
\* remaining_extensions non-zero it adds session_seconds to remaining_seconds
\* and takes one from remaining_extensions unless they are unbounded; with
\* remaining_extensions 0 it changes neither; and nothing changes the
\* UserContext between the read and the write of __extend_session.
ExtensionExact ==
    [][ /\ (pc = "extend" /\ pc' = "extend") => user_info' = user_info
        /\ (pc = "extend" /\ pc' = "enter") =>
              /\ state' = IN_USE
              /\ user_info = ev.prev
              /\ IF user_info.remaining_extensions # 0
                 THEN /\ user_info'.remaining_seconds =
                             user_info.remaining_seconds + user_info.session_seconds
                      /\ user_info'.remaining_extensions =
                             IF user_info.remaining_extensions = Inf
                             THEN Inf ELSE user_info.remaining_extensions - 1
                      /\ user_info'.badge_code = user_info.badge_code
                      /\ user_info'.session_seconds = user_info.session_seconds
                 ELSE user_info' = user_info
        /\ (EnterStep /\ ev.outcome \in {"extended", "no_extensions"}) =>
              (state' = IN_USE /\ user_info' = user_info) ]_vars

\* C10 witness: the last extension of a session has been used.
LastExtensionUsed ==
    /\ pc = "done"
    /\ ev.outcome = "extended"
    /\ ev.prev.remaining_extensions = 1
    /\ user_info.remaining_extensions = 0
    /\ state = IN_USE

\* C11: at every point of every execution at most one SessionTimer and at most
\* one RelockTimer is live, that is started, not cancelled and not yet fired.
AtMostOneLiveTimer ==
    /\ Live(sessT) <= 1
    /\ Live(relT) <= 1

\* The SessionTimer half of C11 (its ticks run under __logout_timer_lock).
AtMostOneLiveSessionTimer == Live(sessT) <= 1

OutsideSourceSet(t, s) ==
    \/ t = T_IDLE /\ s \notin {INITIALIZED, ESTOP, BYPASSED}
    \/ t = T_ESTOP /\ s \notin {INITIALIZED, BYPASSED, IDLE, IN_USE, IN_TRAINING}
    \/ t = T_BYPASS /\ s \notin {INITIALIZED, ESTOP, IDLE, IN_TRAINING}
    \/ t = T_UNLOCK /\ s \notin {IDLE, IN_USE}
    \/ t = T_LOGIN /\ s \notin {IDLE, IN_USE}
    \/ t = T_LOGOUT /\ s \notin {UNLOCKED, IN_USE, IN_TRAINING, IDLE, ESTOP, BYPASSED}

\* C13: the processing of a trigger fired from a mode outside its source set
\* changes neither the mode, the UserContext, the relay, the timers nor the
\* status file, calls no guard (no remote login), runs no entry action and
\* sends nothing to the server.
InvalidTriggerIgnored ==
    [][ /\ (pc = "begin" /\ pc' # "begin" /\ OutsideSourceSet(Head(queue).trigger, state)) =>
              /\ pc' = "done"
              /\ ev'.outcome = "ignored"
              /\ ev'.resp = NoResp
              /\ UNCHANGED <<state, user_info, relay, logout_timer, relock_timer, sessT,
                             relT, sent, training_scan, status_file>>
        /\ (pc = "done" /\ pc' # "done" /\ ev.outcome = "ignored") =>
              UNCHANGED <<state, user_info, relay, logout_timer, relock_timer, sessT,
                          relT, sent, training_scan, status_file>> ]_vars

\* C13 witness: an estop trigger fired in UNLOCKED has been dropped and the
\* door is still unlocked.
EstopDroppedInUnlocked ==
    pc = "done" /\ ev.outcome = "ignored" /\ ev.trigger = T_ESTOP /\ ev.src = UNLOCKED
    /\ state = UNLOCKED /\ relay

\* C14: the power-down sequence drives the relay low only after it has read
\* the current-sense input as clear or MAX_POWER_DOWN_TIMEOUT has elapsed
\* since it started (never after a read of 'drawing current' inside the
\* timeout), and when it returns the relay is low.
PowerDownInterlock ==
    [][ /\ (relay /\ ~relay') =>
              /\ pd.pc = "write"
              /\ \/ pd.reading = "low"
                 \/ /\ opts.MAX_POWER_DOWN_TIMEOUT # Inf
                    /\ pd.elapsed >= opts.MAX_POWER_DOWN_TIMEOUT
        /\ (pd'.pc = "returned") => ~relay' ]_vars

\* C14 witness: the sequence has returned with the relay low after the
\* timeout ended a wait in which the machine never stopped.
PowerDownTimedOut ==
    /\ pd.pc = "returned"
    /\ pd.was_high
    /\ ~relay
    /\ pd.running
    /\ pd.reading = "high"
    /\ opts.MAX_POWER_DOWN_TIMEOUT = 2

\* C15: a transition into IDLE, ESTOP, BYPASSED, IN_TRAINING or TERMINATED
\* completes with the relay low when MAX_POWER_DOWN_TIMEOUT is set, whatever
\* the current-sense input does; when it is not set, the transition has
\* completed only if the current-sense input was read as clear.
PowerDownCompletes ==
    /\ (opts.MAX_POWER_DOWN_TIMEOUT # Inf) => <>(proc = "none" /\ ~relay)
    /\ []((opts.MAX_POWER_DOWN_TIMEOUT = Inf /\ proc = "none") => pd.reading = "low")

\* C15 amended: as C15, the second half for the transitions whose entry
\* action finds the relay energized; with the relay low __disable_power
\* returns without reading the current-sense input.
PowerDownCompletesIfEnergized ==
    /\ (opts.MAX_POWER_DOWN_TIMEOUT # Inf) => <>(proc = "none" /\ ~relay)
    /\ []((opts.MAX_POWER_DOWN_TIMEOUT = Inf /\ proc = "none" /\ pd.was_high)
             => pd.reading = "low")
    /\ []((proc = "none" /\ ~pd.was_high) => (pd.reading = "" /\ ~relay))

\* C15 witness: a transition out of IN_USE has completed with the relay low
\* although the machine never stopped drawing current: the timeout ended the wait.
CompletedOnTimeout ==
    /\ proc = "none"
    /\ ev = NoEvent
    /\ status_file = state \o "\n"
    /\ pd.was_high
    /\ ~relay
    /\ pd.reading = "high"
    /\ pd.sense
    /\ opts.MAX_POWER_DOWN_TIMEOUT # Inf

\* The normal-hours window of the options, in seconds of the day.
WindowStart ==
    (opts.DOOR_NORMAL_HR_START \div 100) * 3600 + (opts.DOOR_NORMAL_HR_START % 100) * 60

WindowEnd ==
    (opts.DOOR_NORMAL_HR_END \div 100) * 3600 + (opts.DOOR_NORMAL_HR_END % 100) * 60

InWindow(t) == WindowStart <= t /\ t <= WindowEnd

\* UNLOCKED was entered with nothing else going on and no input event has
\* arrived since.
UndisturbedUnlock == hist.quiet /\ hist.unlocked

\* C16: in an UNLOCKED period without other events, a RelockTimer tick whose
\* clock reading is inside the inclusive window (the end of the window
\* included) keeps UNLOCKED and starts the next timer, and the first tick
\* whose reading is outside calls logout, which ends in IDLE with the relay low.
RelockAtFirstTickOutside ==
    [][ /\ (UndisturbedUnlock /\ CountStatus(relT', "fired") < CountStatus(relT, "fired")) =>
              /\ state = UNLOCKED /\ state' = UNLOCKED /\ relay'
              /\ relock_timer # 0 /\ relT["fired"][TRUE] = 1
              /\ relT'[IF InWindow(now') THEN "rearm" ELSE "expired"][TRUE] = 1
        /\ (UndisturbedUnlock /\ CountStatus(relT', "create") < CountStatus(relT, "create")) =>
              /\ state' = UNLOCKED /\ relay'
              /\ relock_timer' # 0 /\ relT'["armed"][TRUE] = 1
        /\ (UndisturbedUnlock /\ CountStatus(relT', "expired") < CountStatus(relT, "expired")) =>
              /\ state = UNLOCKED
              /\ queue' # <<>>
              /\ queue'[Len(queue')] = Trig(T_LOGOUT, "")
        /\ (UndisturbedUnlock' /\ hist'.fired_at = 0) =>
              /\ state' = UNLOCKED
              /\ pc' \in {"done", "idle"}
              /\ relay'
              /\ Live(relT') + Pending(relT') = 1
              /\ CountStatus(relT', "expired") = 0
        /\ (UndisturbedUnlock /\ hist.fired_at # 0 /\ pc = "begin" /\ pc' # "begin"
             /\ state = UNLOCKED) =>
              (pc' = "enter" /\ state' = IDLE /\ ev'.trigger = T_LOGOUT)
        /\ (UndisturbedUnlock /\ hist.fired_at # 0 /\ EnterStep /\ ev.src = UNLOCKED) =>
              (state' = IDLE /\ ~relay' /\ relock_timer' = 0
               /\ Live(relT') = 0) ]_vars

\* C16 witness: the tick that read a time after the end of the window has
\* called logout and the machine has entered IDLE with the relay low.
RelockedAfterHours ==
    /\ UndisturbedUnlock
    /\ hist.fired_at # 0
    /\ pc = "done"
    /\ ev.trigger = T_LOGOUT
    /\ ev.src = UNLOCKED
    /\ state = IDLE
    /\ ~relay

\* An undisturbed tick at the last instant of the window has decided to go on.
TickAtEndOfWindow ==
    UndisturbedUnlock /\ now = WindowEnd /\ CountStatus(relT, "rearm") > 0

\* C17: UNLOCKED is entered only with IS_A_DOOR and DOOR_CONTINUOUS_UNLOCK
\* both set, only by the unlock trigger from IDLE or IN_USE, and only when
\* the clock reading of its guard is inside the normal-hours window.
UnlockedOnlyForDoorInHours ==
    [][ (state # UNLOCKED /\ state' = UNLOCKED) =>
          /\ opts.IS_A_DOOR /\ opts.DOOR_CONTINUOUS_UNLOCK
          /\ state \in {IDLE, IN_USE}
          /\ ev'.trigger = T_UNLOCK
          /\ InWindow(ev'.now) ]_vars

\* C17 witness: the logout button pressed in IN_USE at the last instant of
\* the window has unlocked the door.
UnlockedFromInUse ==
    /\ pc = "done" /\ state = UNLOCKED /\ ev.src = IN_USE /\ ev.trigger = T_UNLOCK
    /\ ev.now = WindowEnd /\ relay

\* Training mode is enabled by the options.
TrainingEnabled ==
    ~opts.DISABLE_TRAINING_MODE /\ ~(opts.IS_A_DOOR /\ opts.DOOR_CONTINUOUS_UNLOCK)

\* C18: the logout trigger processed in IDLE, ESTOP or BYPASSED sets the mode
\* to IN_TRAINING exactly when training is enabled and the logout button is
\* still asserted after the polling window; otherwise the mode stays, no
\* entry action runs and nothing else changes.  With training disabled the
\* mode is never IN_TRAINING.
TrainingOnlyWhenHeld ==
    [][ /\ (pc = "begin" /\ pc' # "begin" /\ Head(queue).trigger = T_LOGOUT
             /\ state \in {IDLE, ESTOP, BYPASSED}) =>
              /\ (state' = IN_TRAINING) <=> (TrainingEnabled /\ ev'.held)
              /\ state' = IN_TRAINING => pc' = "enter"
              /\ state' # IN_TRAINING =>
                    /\ pc' = "done"
                    /\ ~ev'.result
                    /\ UNCHANGED <<state, user_info, relay, logout_timer, relock_timer,
                                   sessT, relT, sent, status_file>>
        /\ (pc = "done" /\ pc' # "done" /\ ev.trigger = T_LOGOUT /\ ~ev.result) =>
              UNCHANGED <<state, user_info, relay, logout_timer, relock_timer,
                          sessT, relT, status_file>>
        /\ (~TrainingEnabled => state' # IN_TRAINING) ]_vars

\* C18 witness: the logout button held in ESTOP has taken the machine to
\* IN_TRAINING.
TrainingEnteredFromEstop ==
    /\ pc = "done" /\ ev.trigger = T_LOGOUT /\ ev.src = ESTOP /\ ev.held
    /\ state = IN_TRAINING /\ TrainingEnabled

\* C19: a badge scanned in IN_TRAINING changes neither the mode, the relay,
\* the timers nor the transition queue.  Without a trainer it calls api.login
\* and nothing else, and the UserContext is the scanned badge's if the login
\* succeeded and still absent if it failed.  With a trainer it leaves the
\* UserContext as it is and calls api.register_user once, with the trainer's
\* user id and badge and the scanned badge, if the badge is not the
\* trainer's, and calls nothing if it is.
TrainingScans ==
    [][ (training_scan' # NoScan /\ training_scan' # training_scan) =>
          /\ state = IN_TRAINING
          /\ UNCHANGED <<state, relay, logout_timer, relock_timer, sessT, relT, queue, sent,
                         status_file>>
          /\ training_scan'.trainer = user_info
          /\ training_scan'.badge_code \in Badges
          /\ IF user_info.present
             THEN /\ user_info' = user_info
                  /\ training_scan'.login = ""
                  /\ training_scan'.calls =
                         IF training_scan'.badge_code # user_info.badge_code
                         THEN << <<UserId(user_info.badge_code), user_info.badge_code,
                                   training_scan'.badge_code>> >>
                         ELSE <<>>
             ELSE /\ training_scan'.login # ""
                  /\ training_scan'.calls = <<>>
                  /\ IF training_scan'.login = "ok"
                     THEN /\ user_info'.present
                          /\ user_info'.badge_code = training_scan'.badge_code
                     ELSE user_info' = NoUser ]_vars

\* C19 witness: with trainer A1 logged in, badge B2 has been registered.
StudentRegistered ==
    /\ state = IN_TRAINING
    /\ user_info.present
    /\ user_info.badge_code = "A1"
    /\ training_scan.calls = << <<11, "A1", "B2">> >>

NoLiveTimer == Live(sessT) = 0 /\ Live(relT) = 0

\* C20: the terminate trigger is accepted in every mode; its entry action
\* ends with the mode TERMINATED, the relay low, no UserContext (the logout
\* of the one it found sent) and no live timer; and once the mode is
\* TERMINATED no step changes it, energizes the relay, creates a UserContext
\* or starts a timer.
TerminateIsFinal ==
    [][ /\ (pc = "begin" /\ pc' # "begin" /\ Head(queue).trigger = T_TERMINATE) =>
              (state' = TERMINATED /\ pc' = "enter")
        /\ (EnterStep /\ ev.trigger = T_TERMINATE) =>
              /\ state' = TERMINATED
              /\ ~relay'
              /\ ~user_info'.present
              /\ (user_info.present => sent' = <<user_info.badge_code>>)
              /\ logout_timer' = 0 /\ relock_timer' = 0
              /\ NoLiveTimer'
        /\ (state = TERMINATED) =>
              /\ state' = TERMINATED
              /\ (relay' => relay)
              /\ (user_info'.present => user_info.present)
              /\ Live(sessT') <= Live(sessT)
              /\ Live(relT') <= Live(relT) ]_vars

\* C20 without what it says of the timers.
TerminateIsFinalButTimers ==
    [][ /\ (pc = "begin" /\ pc' # "begin" /\ Head(queue).trigger = T_TERMINATE) =>
              (state' = TERMINATED /\ pc' = "enter")
        /\ (EnterStep /\ ev.trigger = T_TERMINATE) =>
              /\ state' = TERMINATED
              /\ ~relay'
              /\ ~user_info'.present
              /\ (user_info.present => sent' = <<user_info.badge_code>>)
              /\ logout_timer' = 0 /\ relock_timer' = 0
              /\ Live(sessT') = 0
        /\ (state = TERMINATED) =>
              /\ state' = TERMINATED
              /\ (relay' => relay)
              /\ (user_info'.present => user_info.present)
              /\ Live(sessT') <= Live(sessT) ]_vars

\* C21: between transitions (none running, or the next queued trigger not yet
\* started) the status file holds the name of the current mode and a newline;
\* the transition into IDLE whose entry action queued bypass writes "idle"
\* before bypass is processed, and the bypass transition then writes "bypassed".
StatusFileFollowsMode ==
    [][ /\ (pc' \in {"idle", "begin"}) => status_file' = state' \o "\n"
        /\ (pc = "done" /\ pc' # "done" /\ ev.result) =>
              /\ status_file' = state \o "\n"
              /\ state' = state
        /\ (pc = "done" /\ pc' # "done" /\ ev.result /\ state = IDLE
             /\ Len(queue) > 1 /\ queue[2] = Trig(T_BYPASS, "")) =>
              /\ status_file' = "idle\n"
              /\ pc' = "begin"
              /\ Head(queue') = Trig(T_BYPASS, "")
        /\ (pc = "done" /\ pc' # "done" /\ ev.result /\ ev.trigger = T_BYPASS
             /\ ev.src = IDLE) =>
              status_file' = "bypassed\n" ]_vars

\* C21 witness: IDLE was entered with bypass detected; its transition is
\* complete, the file reads idle, and the queued bypass has not started.
IdleReportedBeforeBypass ==
    /\ pc = "begin"
    /\ queue # <<>>
    /\ Head(queue) = Trig(T_BYPASS, "")
    /\ proc # "none"
    /\ state = IDLE
    /\ status_file = "idle\n"
    /\ is_bypass_detected

\* C22: the bypass transition out of IDLE finds no UserContext, starts no
\* api.logout and leaves the relay low; while the machine stays in BYPASSED
\* there is no UserContext; and the idle transition that brings it back ends
\* with no UserContext, no api.logout started, the relay low and no live timer.
BypassRoundTrip ==
    [][ /\ (EnterStep /\ ev.trigger = T_BYPASS /\ ev.src = IDLE) =>
              /\ ev.prev = NoUser
              /\ user_info = NoUser /\ user_info' = NoUser
              /\ sent' = <<>>
              /\ ~relay'
        /\ (hist'.trip \in {"bypassed", "moved"}) =>
              /\ user_info' = NoUser
              /\ ~relay'
              /\ sent' = <<>>
        /\ (EnterStep /\ hist'.trip = "back") =>
              /\ ev.trigger = T_IDLE /\ ev.src = BYPASSED
              /\ state' = IDLE
              /\ user_info' = NoUser
              /\ sent' = <<>>
              /\ ~relay'
              /\ NoLiveTimer' ]_vars

\* C22 without the live timers.
BypassRoundTripButTimers ==
    [][ /\ (EnterStep /\ ev.trigger = T_BYPASS /\ ev.src = IDLE) =>
              /\ ev.prev = NoUser
              /\ user_info = NoUser /\ user_info' = NoUser
              /\ sent' = <<>>
              /\ ~relay'
        /\ (hist'.trip \in {"bypassed", "moved"}) =>
              /\ user_info' = NoUser
              /\ ~relay'
              /\ sent' = <<>>
        /\ (EnterStep /\ hist'.trip = "back") =>
              /\ ev.trigger = T_IDLE /\ ev.src = BYPASSED
              /\ state' = IDLE
              /\ user_info' = NoUser
              /\ sent' = <<>>
              /\ ~relay' ]_vars

\* The machine is back in IDLE from BYPASSED, which it had entered from IDLE.
BackInIdle ==
    /\ hist.trip = "back"
    /\ state = IDLE
    /\ pc = "done"
    /\ ~is_bypass_detected

\* No transition is running, or the next queued trigger has not started.
BetweenTransitions == pc \in {"idle", "begin"}

\* C23: between transitions a SessionTimer is live only in IN_USE and a
\* RelockTimer is live only in UNLOCKED, whatever the tick threads did while
\* the transition ran.
TimersMatchMode ==
    BetweenTransitions =>
        /\ (Live(sessT) > 0 => state = IN_USE)
        /\ (Live(relT) > 0 => state = UNLOCKED)

\* The SessionTimer half of C23.
SessionTimerMatchesMode == BetweenTransitions => (Live(sessT) > 0 => state = IN_USE)

\* C23 for the RelockTimer that self.__relock_timer references alone.
ReferencedRelockTimerMatchesMode ==
    BetweenTransitions => (relT["armed"][TRUE] > 0 => state = UNLOCKED)

\* The tick of a SessionTimer that self.__logout_timer stopped referencing
\* (its cancel came after it had fired) runs from acquire to release.
CancelledTickRuns == sessT'["fired"][FALSE] < sessT["fired"][FALSE]

\* The tick has only ended its thread.
TickReturned ==
    /\ user_info' = user_info
    /\ sessT' = RemoveTimer(sessT, "fired", FALSE)
    /\ logout_timer' = logout_timer
    /\ queue' = queue

\* C24: the tick of a SessionTimer that was cancelled before the tick acquired
\* the lock returns without decrementing remaining_seconds, without starting
\* a timer and without calling logout, also when a new SessionTimer has been
\* started since.
CancelledTickReturns == [][ CancelledTickRuns => TickReturned ]_vars

\* C24 where no new SessionTimer has been started since the cancel.
CancelledTickReturnsIfNoneInstalled ==
    [][ (CancelledTickRuns /\ logout_timer = 0) => TickReturned ]_vars

\* No thread is in a transition, the mode is IDLE and the bypass input is
\* asserted: never, in any configuration.
NeverRestsInIdleBypassed == ~(proc = "none" /\ state = IDLE /\ is_bypass_detected)

InputsProcessed == proc = "none" /\ ran

\* C26: with USE_ESTOP, whenever the E-stop input is active and every
\* delivered input event has been processed, the relay is low and the mode is
\* neither IN_USE nor UNLOCKED.
EstopActiveRelayLow ==
    (opts.USE_ESTOP /\ is_estop_activated /\ InputsProcessed) =>
        (~relay /\ state \notin {IN_USE, UNLOCKED})

\* The logout() of a SessionTimer tick has been processed to the end of its
\* transition, or dropped.
ExpiryLogoutProcessed == pc = "done" /\ ev.trigger = T_LOGOUT /\ ev.expiry

\* C27: the logout of a SessionTimer tick ends only the session whose
\* remaining_seconds reached 0: processed in IN_USE with a session that has
\* time left (extended, or started by an override, meanwhile) it leaves the
\* mode and the UserContext alone, and processed in IDLE, UNLOCKED or
\* IN_TRAINING it causes no transition.
ExpiryLogoutEndsOnlyExpired ==
    ExpiryLogoutProcessed =>
        /\ (ev.src = IN_USE /\ ev.prev.remaining_seconds > 0) =>
               (state = IN_USE /\ user_info = ev.prev)
        /\ ev.src \in {IDLE, UNLOCKED, IN_TRAINING} => (~ev.result /\ state = ev.src)

\* An expiry logout processed in IDLE with the logout button released, or in
\* ESTOP or BYPASSED, is dropped.
ExpiryLogoutDroppedAtRest ==
    (ExpiryLogoutProcessed /\ ev.src \in {IDLE, ESTOP, BYPASSED} /\ ~ev.held) => ~ev.result

====
